---- MODULE Spec2Model ----
(***************************************************************************)
(* Model of src/src/utils/file_reader/read_ibw.py: the two public          *)
(* functions extract_metadata(notes) and open_ibw(file_path, channel),     *)
(* and the private _ibw_pixel_to_nm_scaling(scan).                         *)
(*                                                                         *)
(* Text is a sequence of one-character strings.  Python floats are the     *)
(* exact rationals <<num, den>> (den > 0, lowest terms): rounding is not   *)
(* modelled, raising is.  A numpy array is [shape, at] with 0-based index  *)
(* tuples.  A dict is a function whose DOMAIN is its key set.              *)
(***************************************************************************)
EXTENDS Integers, Sequences, FiniteSets, TLC

VARIABLES
    op,             \* which public function is being called
    pc,             \* position inside that function
    notes,          \* extract_metadata: its argument (text)
    result,         \* extract_metadata: its return value (dict)
    scan_labels,    \* open_ibw: scan["wave"]["labels"], one list per dimension
    scan_note,      \* open_ibw: scan["wave"]["note"], the raw bytes
    wData,          \* open_ibw: scan["wave"]["wData"]
    requested,      \* open_ibw: the channel argument as passed in
    schema,         \* STANDARDISED_METADATA_DICT_KEYS
    labels, channel, channel_idx, image, scaling, metadata,
    x_range_nm, y_pixels, x_pixels, scan_rate, line_rate, fps,
    values, file_metadata,
    raised,         \* the exception that ended the call, "" while none
    raised_at       \* the source line that raised it, 0 while none

vars == <<op, pc, notes, result, scan_labels, scan_note, wData, requested,
          schema, labels, channel, channel_idx, image, scaling, metadata,
          x_range_nm, y_pixels, x_pixels, scan_rate, line_rate, fps,
          values, file_metadata, raised, raised_at>>

----------------------------------------------------------------------------
(* Bounds of the model *)

MaxLen == 4         \* longest text handed to extract_metadata directly
MaxDim == 2         \* largest extent of the two spatial axes of wData
MaxChan == 2        \* largest extent of the channel axis of wData
MaxSlots == 2       \* most label slots on the channel dimension

----------------------------------------------------------------------------
(* Characters *)

CR == "\r"
LF == "\n"
TAB == "\t"
BS == "\\"
SQ == "'"
DQ == "\""

Whitespace == {" ", CR, LF, TAB}

Range(s) == {s[i] : i \in 1..Len(s)}

SetMin(S) == CHOOSE m \in S : \A n \in S : m <= n
SetMax(S) == CHOOSE m \in S : \A n \in S : m >= n

RECURSIVE Concat(_)
Concat(ss) == IF ss = <<>> THEN <<>> ELSE Head(ss) \o Concat(Tail(ss))

----------------------------------------------------------------------------
(* str methods used by the parser *)

\* the separator "\\r" of lines 23 and 47: a backslash followed by the letter r
LineSep == <<BS, "r">>

\* s.split("\\r")
RECURSIVE SplitLines(_)
SplitLines(s) ==
    LET hits == {i \in 1..(Len(s) - 1) : s[i] = LineSep[1] /\ s[i + 1] = LineSep[2]}
    IN  IF hits = {} THEN <<s>>
        ELSE LET i == SetMin(hits)
             IN  <<SubSeq(s, 1, i - 1)>> \o SplitLines(SubSeq(s, i + 2, Len(s)))

\* s.strip()
Strip(s) ==
    LET keep == {i \in 1..Len(s) : s[i] \notin Whitespace}
    IN  IF keep = {} THEN <<>> ELSE SubSeq(s, SetMin(keep), SetMax(keep))

\* line.split(":", 1) of a line that holds a colon
SplitColon(line) ==
    LET i == SetMin({j \in 1..Len(line) : line[j] = ":"})
    IN  <<SubSeq(line, 1, i - 1), SubSeq(line, i + 1, Len(line))>>

EmptyDict == [k \in {} |-> <<>>]

DictPut(d, k, v) == [x \in (DOMAIN d) \cup {k} |-> IF x = k THEN v ELSE d[x]]

DictGet(d, k, default) == IF k \in DOMAIN d THEN d[k] ELSE default

\* the loop body of lines 48-50 (and 24-26), folded over the lines in order
RECURSIVE NotesLoop(_, _)
NotesLoop(lines, acc) ==
    IF lines = <<>> THEN acc
    ELSE LET line == Head(lines)
         IN  NotesLoop(Tail(lines),
                IF ":" \in Range(line)
                THEN LET kv == SplitColon(line)
                     IN  DictPut(acc, Strip(kv[1]), Strip(kv[2]))
                ELSE acc)

extract_metadata(text) == NotesLoop(SplitLines(text), EmptyDict)

\* str(b) of a bytes object: its repr
EscapeByte(c, quote) ==
    CASE c = BS -> <<BS, BS>>
      [] c = CR -> <<BS, "r">>
      [] c = LF -> <<BS, "n">>
      [] c = TAB -> <<BS, "t">>
      [] c = quote -> <<BS, quote>>
      [] OTHER -> <<c>>

StrOfBytes(b) ==
    LET quote == IF SQ \in Range(b) /\ DQ \notin Range(b) THEN DQ ELSE SQ
    IN  <<"b", quote>> \o Concat([i \in 1..Len(b) |-> EscapeByte(b[i], quote)])
        \o <<quote>>

----------------------------------------------------------------------------
(* Numbers *)

E9 == 1000000000

Abs(n) == IF n < 0 THEN -n ELSE n

RECURSIVE GCD(_, _)
GCD(a, b) == IF b = 0 THEN a ELSE GCD(b, a % b)

\* the rational n/d in lowest terms with a positive denominator (d # 0)
Rat(n, d) ==
    LET g == GCD(Abs(n), Abs(d))
        sgn == IF d < 0 THEN -1 ELSE 1
    IN  <<sgn * (n \div g), sgn * (d \div g)>>

RatOfInt(n) == <<n, 1>>

Zero == RatOfInt(0)

IsZero(a) == a[1] = 0

\* a * b, cancelling before multiplying
RatMul(a, b) ==
    LET g1 == GCD(Abs(a[1]), b[2])
        g2 == GCD(Abs(b[1]), a[2])
    IN  <<(a[1] \div g1) * (b[1] \div g2), (a[2] \div g2) * (b[2] \div g1)>>

\* 1 / a, for a # 0
RatInv(a) == IF a[1] < 0 THEN <<-a[2], -a[1]>> ELSE <<a[2], a[1]>>

\* a / b, for b # 0
RatDiv(a, b) == RatMul(a, RatInv(b))

RECURSIVE Pow10(_)
Pow10(n) == IF n = 0 THEN 1 ELSE 10 * Pow10(n - 1)

Digits == <<"0", "1", "2", "3", "4", "5", "6", "7", "8", "9">>

IsDigits(s) == \A i \in 1..Len(s) : s[i] \in Range(Digits)

DigitValue(c) == (CHOOSE n \in 1..10 : Digits[n] = c) - 1

RECURSIVE DigitsVal(_)
DigitsVal(s) ==
    IF s = <<>> THEN 0
    ELSE 10 * DigitsVal(SubSeq(s, 1, Len(s) - 1)) + DigitValue(s[Len(s)])

\* an optional sign taken off the front: <<sign, rest>>
Signed(s) ==
    IF s # <<>> /\ s[1] \in {"+", "-"}
    THEN <<IF s[1] = "-" THEN -1 ELSE 1, Tail(s)>>
    ELSE <<1, s>>

\* int(s) of a str: [ok |-> FALSE] stands for ValueError.  Decimal digits
\* with an optional sign, surrounding whitespace ignored.
IntOfSigned(sg) ==
    IF sg[2] # <<>> /\ IsDigits(sg[2])
    THEN [ok |-> TRUE, val |-> sg[1] * DigitsVal(sg[2])]
    ELSE [ok |-> FALSE, val |-> 0]

ParseInt(s) == IntOfSigned(Signed(Strip(s)))

\* the part of s before / after its first character of cs
FirstIn(s, cs) == SetMin({i \in 1..Len(s) : s[i] \in cs} \cup {Len(s) + 1})
Before(s, cs) == SubSeq(s, 1, FirstIn(s, cs) - 1)
After(s, cs) == SubSeq(s, FirstIn(s, cs) + 1, Len(s))
Has(s, cs) == \E i \in 1..Len(s) : s[i] \in cs

\* n * 10^e10
Scaled(n, e10) == IF e10 >= 0 THEN Rat(n * Pow10(e10), 1) ELSE Rat(n, Pow10(-e10))

FloatOfParts(sign, ip, fp, hasExp, ex) ==
    IF /\ IsDigits(ip) /\ IsDigits(fp) /\ (ip # <<>> \/ fp # <<>>)
       /\ (hasExp => (ex[2] # <<>> /\ IsDigits(ex[2])))
    THEN [ok |-> TRUE,
          val |-> Scaled(sign * DigitsVal(ip \o fp),
                         (IF hasExp THEN ex[1] * DigitsVal(ex[2]) ELSE 0) - Len(fp))]
    ELSE [ok |-> FALSE, val |-> Zero]

FloatOfMantissa(sign, mant, hasExp, ex) ==
    FloatOfParts(sign, Before(mant, {"."}), After(mant, {"."}), hasExp, ex)

FloatOfSigned(sg) ==
    FloatOfMantissa(sg[1], Before(sg[2], {"e", "E"}), Has(sg[2], {"e", "E"}),
                    Signed(After(sg[2], {"e", "E"})))

\* float(s) of a str: [ok |-> FALSE] stands for ValueError.  The decimal
\* grammar [sign] digits [. digits] [e [sign] digits], surrounding whitespace
\* ignored; the numbers are the ones 32-bit integers hold.
ParseFloat(s) == FloatOfSigned(Signed(Strip(s)))

----------------------------------------------------------------------------
(* numpy arrays: [shape |-> <<n1, ..>>, at |-> [index tuples |-> sample]] *)

Idx2(r, c) == (0..(r - 1)) \X (0..(c - 1))

\* a[:, :, k] for k inside the third dimension
Plane(a, k) ==
    [shape |-> <<a.shape[1], a.shape[2]>>,
     at |-> [ij \in Idx2(a.shape[1], a.shape[2]) |-> a.at[<<ij[1], ij[2], k>>]]]

\* a.T of a 2-D array
Transpose(a) ==
    [shape |-> <<a.shape[2], a.shape[1]>>,
     at |-> [ij \in Idx2(a.shape[2], a.shape[1]) |-> a.at[<<ij[2], ij[1]>>]]]

\* a * f, elementwise
ScaleArray(a, f) ==
    [shape |-> a.shape,
     at |-> [ij \in DOMAIN a.at |-> RatMul(a.at[ij], f)]]

\* np.flipud(a): the rows (first axis) in reverse order
Flipud(a) ==
    [shape |-> a.shape,
     at |-> [ij \in Idx2(a.shape[1], a.shape[2]) |->
                a.at[<<a.shape[1] - 1 - ij[1], ij[2]>>]]]

FlipThenTranspose(w, k) == ScaleArray(Transpose(Flipud(Plane(w, k))), RatOfInt(E9))

\* lines 87-88
ViewImage(w, k) == Flipud(ScaleArray(Transpose(Plane(w, k)), RatOfInt(E9)))


----------------------------------------------------------------------------
(* Note keys *)

KeySlowScanSize == <<"S","l","o","w","S","c","a","n","S","i","z","e">>
KeyFastScanSize == <<"F","a","s","t","S","c","a","n","S","i","z","e">>
KeyScanLines == <<"S","c","a","n","L","i","n","e","s">>
KeyScanPoints == <<"S","c","a","n","P","o","i","n","t","s">>
KeyScanRate == <<"S","c","a","n","R","a","t","e">>
KeyScalingFactor == <<"s","c","a","l","i","n","g","_","f","a","c","t","o","r">>

----------------------------------------------------------------------------
(* _ibw_pixel_to_nm_scaling, lines 8-30 *)

Returned(v) == [raised |-> "", raised_at |-> 0, val |-> v]
Raising(exc, line) == [raised |-> exc, raised_at |-> line, val |-> <<>>]

\* 1/nm, raising when nm is 0
InverseAt(nm, line) ==
    IF IsZero(nm) THEN Raising("ZeroDivisionError", line) ELSE Returned(RatInv(nm))

\* 1/(size / n * 1e9)
AxisOfSize(size, n, line) ==
    IF ~size.ok THEN Raising("ValueError", line)
    ELSE IF n = 0 THEN Raising("ZeroDivisionError", line)
    ELSE InverseAt(RatMul(RatDiv(size.val, RatOfInt(n)), RatOfInt(E9)), line)

\* 1/(float(notes[key]) / n * 1e9), one element of the tuple of lines 27-30
AxisScaling(notesd, key, n, line) ==
    IF key \notin DOMAIN notesd THEN Raising("KeyError", line)
    ELSE AxisOfSize(ParseFloat(notesd[key]), n, line)

\* lines 22-26
ScalingNotes(note) == NotesLoop(SplitLines(StrOfBytes(note)), EmptyDict)

\* ( slow, fast )[0]: the tuple is built whole, element 0 first, then indexed
TupleSecond(slow, fast) ==
    IF slow.raised # "" THEN slow ELSE fast

TupleFirst(slow, fast) ==
    IF slow.raised # "" THEN slow
    ELSE IF fast.raised # "" THEN fast
    ELSE slow

ScalingOfNotes(notesd, shape) ==
    TupleFirst(AxisScaling(notesd, KeySlowScanSize, shape[1], 28),
               AxisScaling(notesd, KeyFastScanSize, shape[2], 29))

ScalingFastElement(note, shape) ==
    TupleSecond(AxisScaling(ScalingNotes(note), KeySlowScanSize, shape[1], 28),
                AxisScaling(ScalingNotes(note), KeyFastScanSize, shape[2], 29))

ScalingSlowOnly(note, shape) ==
    AxisScaling(ScalingNotes(note), KeySlowScanSize, shape[1], 28)

_ibw_pixel_to_nm_scaling(note, shape) == ScalingOfNotes(ScalingNotes(note), shape)

----------------------------------------------------------------------------
(* open_ibw, lines 53-122 *)

NumFrames == 1

\* `if label:` of line 81 over one dimension's slots
NonEmpty(label) == label # ""

\* lines 78-82: every dimension's slots, in order, the empty ones dropped
CollectAllDims(table) ==
    Concat([d \in 1..Len(table) |-> SelectSeq(table[d], NonEmpty)])

\* labels.index(channel), 0-based, for a channel in the list
IndexOf(list, x) == SetMin({i \in 1..Len(list) : list[i] = x}) - 1

\* len(values) != len(STANDARDISED_METADATA_DICT_KEYS) of line 116, negated
SchemaCheckSkipped(vals, keys) == TRUE

SchemaMatches(vals, keys) == Len(vals) = Len(keys)

\* dict(zip(keys, vals)): zip stops at the shorter, a repeated key keeps its last value
DictZip(keys, vals) ==
    LET n == IF Len(keys) < Len(vals) THEN Len(keys) ELSE Len(vals)
    IN  [k \in {keys[i] : i \in 1..n} |->
            vals[SetMax({i \in 1..n : keys[i] = k})]]

Raise(exc, line) ==
    /\ pc' = "raised"
    /\ raised' = exc
    /\ raised_at' = line

NoRaise == UNCHANGED <<raised, raised_at>>

inputs == <<op, notes, scan_labels, scan_note, wData, requested, schema>>

\* lines 78-82
CollectLabels ==
    /\ op = "open_ibw" /\ pc = "labels"
    /\ labels' = CollectAllDims(scan_labels)
    /\ pc' = "resolve"
    /\ NoRaise
    /\ UNCHANGED <<inputs, result, channel, channel_idx, image, scaling, metadata,
                   x_range_nm, y_pixels, x_pixels, scan_rate, line_rate, fps,
                   values, file_metadata>>

\* lines 83-86
ResolveChannel ==
    /\ op = "open_ibw" /\ pc = "resolve"
    /\ IF channel \in Range(labels)
       THEN /\ channel_idx' = IndexOf(labels, channel)
            /\ pc' = "plane"
            /\ NoRaise
            /\ UNCHANGED channel
       ELSE IF labels = <<>>
       THEN /\ Raise("IndexError", 84)
            /\ UNCHANGED <<channel, channel_idx>>
       ELSE /\ channel' = labels[1]
            /\ channel_idx' = IndexOf(labels, labels[1])
            /\ pc' = "plane"
            /\ NoRaise
    /\ UNCHANGED <<inputs, result, labels, image, scaling, metadata,
                   x_range_nm, y_pixels, x_pixels, scan_rate, line_rate, fps,
                   values, file_metadata>>

\* lines 87-88
SelectPlane ==
    /\ op = "open_ibw" /\ pc = "plane"
    /\ IF channel_idx >= wData.shape[3]
       THEN /\ Raise("IndexError", 87)
            /\ UNCHANGED image
       ELSE /\ image' = ViewImage(wData, channel_idx)
            /\ pc' = "scaling"
            /\ NoRaise
    /\ UNCHANGED <<inputs, result, labels, channel, channel_idx, scaling, metadata,
                   x_range_nm, y_pixels, x_pixels, scan_rate, line_rate, fps,
                   values, file_metadata>>

\* line 89
ComputeScaling ==
    /\ op = "open_ibw" /\ pc = "scaling"
    /\ \E r \in {_ibw_pixel_to_nm_scaling(scan_note, wData.shape)} :
           IF r.raised # ""
           THEN /\ Raise(r.raised, r.raised_at)
                /\ UNCHANGED scaling
           ELSE /\ scaling' = r.val
                /\ pc' = "metadata"
                /\ NoRaise
    /\ UNCHANGED <<inputs, result, labels, channel, channel_idx, image, metadata,
                   x_range_nm, y_pixels, x_pixels, scan_rate, line_rate, fps,
                   values, file_metadata>>

\* lines 90-91
ExtractMetadata ==
    /\ op = "open_ibw" /\ pc = "metadata"
    /\ metadata' = DictPut(extract_metadata(StrOfBytes(scan_note)),
                           KeyScalingFactor, scaling)
    /\ pc' = "fields"
    /\ NoRaise
    /\ UNCHANGED <<inputs, result, labels, channel, channel_idx, image, scaling,
                   x_range_nm, y_pixels, x_pixels, scan_rate, line_rate, fps,
                   values, file_metadata>>

\* the first line of 94-101 that raises, if one does
FieldsRaise(xr, yp, xp, sr) ==
    IF ~xr.ok THEN Raising("ValueError", 94)
    ELSE IF ~yp.ok THEN Raising("ValueError", 95)
    ELSE IF ~xp.ok THEN Raising("ValueError", 96)
    ELSE IF ~sr.ok THEN Raising("ValueError", 97)
    ELSE IF yp.val # 0 /\ IsZero(sr.val) THEN Raising("ZeroDivisionError", 100)
    ELSE IF ~IsZero(sr.val) /\ IsZero(RatMul(RatOfInt(yp.val), sr.val))
         THEN Raising("ZeroDivisionError", 101)
    ELSE Returned(<<>>)

\* line 100
LineRateOf(y, rate) == IF y # 0 THEN RatInv(rate) ELSE Zero

\* line 101
FpsOf(y, rate) == IF ~IsZero(rate) THEN RatInv(RatMul(RatOfInt(y), rate)) ELSE Zero

\* lines 93-102; the locals of a call that raises are gone with it
ComputeFields ==
    /\ op = "open_ibw" /\ pc = "fields"
    /\ \E xr \in {ParseFloat(DictGet(metadata, KeyFastScanSize, <<"0">>))},
          yp \in {ParseInt(DictGet(metadata, KeyScanLines, <<"0">>))},
          xp \in {ParseInt(DictGet(metadata, KeyScanPoints, <<"0">>))},
          sr \in {ParseFloat(DictGet(metadata, KeyScanRate, <<"0">>))} :
        \E fail \in {FieldsRaise(xr, yp, xp, sr)} :
           IF fail.raised # ""
           THEN /\ Raise(fail.raised, fail.raised_at)
                /\ UNCHANGED <<x_range_nm, y_pixels, x_pixels, scan_rate, line_rate, fps>>
           ELSE /\ x_range_nm' = RatMul(xr.val, RatOfInt(E9))
                /\ y_pixels' = RatOfInt(yp.val)
                /\ x_pixels' = RatOfInt(xp.val)
                /\ scan_rate' = sr.val
                /\ line_rate' = LineRateOf(yp.val, sr.val)
                /\ fps' = FpsOf(yp.val, sr.val)
                /\ pc' = "assemble"
                /\ NoRaise
    /\ UNCHANGED <<inputs, result, labels, channel, channel_idx, image, scaling,
                   metadata, values, file_metadata>>

\* lines 104-122
AssembleMetadata ==
    /\ op = "open_ibw" /\ pc = "assemble"
    /\ values' = <<RatOfInt(NumFrames), x_range_nm, fps, line_rate, y_pixels,
                   x_pixels, scaling, channel, "None">>
    /\ IF ~SchemaMatches(values', schema)
       THEN /\ Raise("ValueError", 117)
            /\ UNCHANGED file_metadata
       ELSE /\ file_metadata' = DictZip(schema, values')
            /\ pc' = "done"
            /\ NoRaise
    /\ UNCHANGED <<inputs, result, labels, channel, channel_idx, image, scaling,
                   metadata, x_range_nm, y_pixels, x_pixels, scan_rate, line_rate,
                   fps>>

\* a direct call of extract_metadata, lines 32-51
ExtractMetadataCall ==
    /\ op = "extract_metadata" /\ pc = "call"
    /\ result' = extract_metadata(notes)
    /\ pc' = "returned"
    /\ NoRaise
    /\ UNCHANGED <<inputs, labels, channel, channel_idx, image, scaling, metadata,
                   x_range_nm, y_pixels, x_pixels, scan_rate, line_rate, fps,
                   values, file_metadata>>

Next ==
    \/ CollectLabels
    \/ ResolveChannel
    \/ SelectPlane
    \/ ComputeScaling
    \/ ExtractMetadata
    \/ ComputeFields
    \/ AssembleMetadata
    \/ ExtractMetadataCall


----------------------------------------------------------------------------
(* The calls the model makes *)

Unset == <<>>
NoImage == [shape |-> <<>>, at |-> <<>>]

\* texts of at most MaxLen characters for a direct call of extract_metadata
NoteAlphabet == {"A", ":", " ", CR, BS, "r"}

Texts == UNION {[1..n -> NoteAlphabet] : n \in 0..MaxLen}

\* one "Key: value" line of a note, ended by a carriage return
NoteLine(key, val) == key \o <<":", " ">> \o val \o <<CR>>

OptLine(key, opt) == IF opt = <<>> THEN <<>> ELSE NoteLine(key, opt[1])

\* an absent line, or a line with one of these values
SizeSlowChoices == {<<>>, << <<"0">> >>, << <<"x">> >>, << <<"2", "e", "-", "9">> >>}
SizeFastChoices == {<<>>, << <<"0">> >>, << <<"x">> >>, << <<"4", "e", "-", "9">> >>}
LinesChoices == {<<>>, << <<"0">> >>, << <<"x">> >>, << <<"4">> >>}
PointsChoices == {<<>>, << <<"4">> >>}
RateChoices == {<<>>, << <<"0">> >>, << <<"2">> >>}
HeadChoices == {<<>>, << <<"1">> >>}

KeyHead == <<"N", "o", "t", "e">>

NoteOf(head, slow, fast, lines, points, rate) ==
    OptLine(KeyHead, head) \o OptLine(KeySlowScanSize, slow)
    \o OptLine(KeyFastScanSize, fast) \o OptLine(KeyScanLines, lines)
    \o OptLine(KeyScanPoints, points) \o OptLine(KeyScanRate, rate)

GoodNote ==
    NoteOf(<< <<"1">> >>, << <<"2", "e", "-", "9">> >>, << <<"4", "e", "-", "9">> >>,
           << <<"4">> >>, << <<"4">> >>, << <<"2">> >>)

\* a sample array whose samples are pairwise different: sample (r, c, k) is
\* 1 + (r*C + c)*K + k nanometres, stored in metres
WaveData(R, C, K) ==
    [shape |-> <<R, C, K>>,
     at |-> [rck \in (0..(R - 1)) \X (0..(C - 1)) \X (0..(K - 1)) |->
                Rat(1 + (rck[1] * C + rck[2]) * K + rck[3], E9)]]

ChannelNames == <<"HeightTrace", "PhaseTrace", "ZSensorTrace", "AmplitudeTrace">>

\* the label table of a wave with K labelled channels: the slot of the layer
\* dimension itself is empty, then one slot per channel
UsualLabels(K) == << <<>>, <<>>, <<"">> \o SubSeq(ChannelNames, 1, K), <<>> >>

SlotNames == {"", "HeightTrace", "PhaseTrace"}

SlotLists == UNION {[1..n -> SlotNames] : n \in 0..MaxSlots}

RowLabelLists == {<<>>, <<"Rows">>}

Requests == {"HeightTrace", "PhaseTrace", "HeightTracee"}

\* STANDARDISED_METADATA_DICT_KEYS is imported (line 6), not defined here: the
\* model takes its first 8, 9 or 10 names from this list
SchemaNames ==
    <<"frame count", "fast-axis range", "frames per second", "line rate",
      "slow pixel count", "fast pixel count", "scaling factor", "channel name",
      "reserved", "extra">>

SchemaLens == {8, 9, 10}

SchemaOf(n) == SubSeq(SchemaNames, 1, n)

CallOpenIbw(table, note, w, req, keys) ==
    /\ op = "open_ibw" /\ pc = "labels"
    /\ notes = <<>> /\ result = EmptyDict
    /\ scan_labels = table /\ scan_note = note /\ wData = w
    /\ requested = req /\ schema = keys
    /\ labels = <<>> /\ channel = req /\ channel_idx = -1
    /\ image = NoImage /\ scaling = Unset /\ metadata = EmptyDict
    /\ x_range_nm = Unset /\ y_pixels = Unset /\ x_pixels = Unset
    /\ scan_rate = Unset /\ line_rate = Unset /\ fps = Unset
    /\ values = Unset /\ file_metadata = EmptyDict
    /\ raised = "" /\ raised_at = 0

CallExtractMetadata(text) ==
    /\ op = "extract_metadata" /\ pc = "call"
    /\ notes = text /\ result = EmptyDict
    /\ scan_labels = <<>> /\ scan_note = <<>> /\ wData = WaveData(0, 0, 0)
    /\ requested = "" /\ schema = <<>>
    /\ labels = <<>> /\ channel = "" /\ channel_idx = -1
    /\ image = NoImage /\ scaling = Unset /\ metadata = EmptyDict
    /\ x_range_nm = Unset /\ y_pixels = Unset /\ x_pixels = Unset
    /\ scan_rate = Unset /\ line_rate = Unset /\ fps = Unset
    /\ values = Unset /\ file_metadata = EmptyDict
    /\ raised = "" /\ raised_at = 0

\* the notes "A:1<CR>B: two <CR>", with carriage returns
SampleNotes == <<"A", ":", "1", CR, "B", ":", " ", "t", "w", "o", " ", CR>>

\* extract_metadata on every short text and on the sample notes
InitParse == \E text \in Texts \cup {SampleNotes} : CallExtractMetadata(text)

\* open_ibw over label tables, requested channels and channel counts
InitLabels ==
    \E rows \in RowLabelLists, slots \in SlotLists, req \in Requests, K \in 1..MaxChan :
        CallOpenIbw(<<rows, <<>>, slots, <<>> >>, GoodNote, WaveData(1, 1, K), req,
                    SchemaOf(9))

\* open_ibw over array shapes, channels and schema lengths
InitImage ==
    \E R \in 0..MaxDim, C \in 0..MaxDim, K \in 1..MaxChan, req \in Requests,
       n \in SchemaLens :
        CallOpenIbw(UsualLabels(K), GoodNote, WaveData(R, C, K), req, SchemaOf(n))

\* open_ibw over notes and the two spatial extents
InitNotes ==
    \E head \in HeadChoices, slow \in SizeSlowChoices, fast \in SizeFastChoices,
       lines \in LinesChoices, points \in PointsChoices, rate \in RateChoices,
       R \in 0..MaxDim, C \in 0..MaxDim :
        CallOpenIbw(UsualLabels(1), NoteOf(head, slow, fast, lines, points, rate),
                    WaveData(R, C, 1), "HeightTrace", SchemaOf(9))

Init == InitParse \/ InitLabels \/ InitImage \/ InitNotes

Spec == Init /\ [][Next]_vars


----------------------------------------------------------------------------
(* Properties *)

InOpenIbw == op = "open_ibw"

\* the channel has been resolved (lines 83-86 ran without raising)
Resolved == InOpenIbw /\ pc \notin {"labels", "resolve"} /\ raised_at # 84

\* lines 93-102 ran without raising
FieldsComputed == InOpenIbw /\ fps # Unset

\* C1: a requested channel that is not among the non-empty labels never makes
\* channel resolution fail: label index 0 is selected and its label becomes the
\* channel name, for every label table, also one without a non-empty entry.
ChannelFallbackNeverFails ==
    (InOpenIbw /\ pc \notin {"labels", "resolve"} /\ requested \notin Range(labels))
        => /\ raised_at # 84
           /\ channel_idx = 0
           /\ channel = labels[1]
           /\ (image.shape # <<>> => image = ViewImage(wData, 0))

\* C2: once the nine values are assembled, the call either returns a record
\* whose keys are the schema's keys, each paired with the value at its
\* position, or raises the schema mismatch because the schema has not nine
\* keys; no record with another number of fields is returned.
SchemaInvariant ==
    /\ (InOpenIbw /\ values # Unset) =>
          /\ values = <<RatOfInt(1), x_range_nm, fps, line_rate, y_pixels, x_pixels,
                        scaling, channel, "None">>
          /\ \/ pc = "done"
             \/ /\ pc = "raised" /\ raised = "ValueError" /\ raised_at = 117
                /\ Len(schema) # 9
                /\ DOMAIN file_metadata = {}
    /\ (InOpenIbw /\ pc = "done") =>
          /\ Len(schema) = 9
          /\ DOMAIN file_metadata = Range(schema)
          /\ Cardinality(DOMAIN file_metadata) = 9
          /\ \A i \in 1..9 : file_metadata[schema[i]] = values[i]

\* a returned record of nine fields: one frame, 4 nm, 0.125 fps, line rate 0.5
SchemaInvariantWitness ==
    /\ InOpenIbw /\ pc = "done" /\ Len(schema) = 9
    /\ file_metadata[schema[1]] = <<1, 1>>
    /\ file_metadata[schema[2]] = <<4, 1>>
    /\ file_metadata[schema[3]] = <<1, 8>>
    /\ file_metadata[schema[4]] = <<1, 2>>
    /\ file_metadata[schema[9]] = "None"

\* s.split("\r"): the lines between carriage returns
RECURSIVE SplitOnCR(_)
SplitOnCR(s) ==
    IF CR \notin Range(s) THEN <<s>>
    ELSE <<Before(s, {CR})>> \o SplitOnCR(After(s, {CR}))

\* C3: the parser returns the map got by splitting the text on carriage
\* returns, dropping the lines without a colon, and splitting each other line
\* on its first colon into a trimmed key and a trimmed value, the last line of
\* a key winning; "A:1<CR>B: two <CR>" gives {"A": "1", "B": "two"}.
NotesParsedByCarriageReturn ==
    (op = "extract_metadata" /\ pc = "returned") =>
        /\ result = NotesLoop(SplitOnCR(notes), EmptyDict)
        /\ (notes = SampleNotes =>
                result = [k \in {<<"A">>, <<"B">>} |->
                             IF k = <<"A">> THEN <<"1">> ELSE <<"t", "w", "o">>])

\* the two scan sizes as the scaling calculator reads them
SlowSize == ParseFloat(ScalingNotes(scan_note)[KeySlowScanSize])
FastSize == ParseFloat(ScalingNotes(scan_note)[KeyFastScanSize])

\* C4 as claimed: the stored scaling factor is the fast-axis value,
\* 1 / (FastScanSize / pixel count of the fast axis * 1e9).
ScalingIsFastAxis ==
    (InOpenIbw /\ pc = "done") =>
        /\ values[7] = scaling
        /\ RatMul(scaling, RatMul(FastSize.val, RatOfInt(E9))) = RatOfInt(wData.shape[2])

\* C4 as amended: the scaling factor returned by the scaling calculator and
\* stored in the record is the first element of the pair, the slow-axis value
\* 1 / (SlowScanSize / shape[0] * 1e9); the FastScanSize element is computed
\* and not returned.
ScalingIsSlowAxis ==
    (InOpenIbw /\ scaling # Unset) =>
        /\ RatMul(scaling, RatMul(SlowSize.val, RatOfInt(E9))) = RatOfInt(wData.shape[1])
        /\ (pc = "done" => values[7] = scaling /\ file_metadata[schema[7]] = scaling)

\* a 2 x 1 array with SlowScanSize 2e-9 and FastScanSize 4e-9: the record holds
\* 2 / 2 = 1, where the fast axis would give 1 / 4
ScalingIsSlowAxisWitness ==
    /\ InOpenIbw /\ pc = "done"
    /\ wData.shape[1] = 2 /\ wData.shape[2] = 1
    /\ SlowSize.val = <<1, 500000000>> /\ FastSize.val = <<1, 250000000>>
    /\ file_metadata[schema[7]] = <<1, 1>>

\* what makes the scaling step fail: a scan size absent, not a number or 0, or
\* an extent of 0
ScalingInputBad ==
    \/ KeySlowScanSize \notin DOMAIN ScalingNotes(scan_note)
    \/ KeyFastScanSize \notin DOMAIN ScalingNotes(scan_note)
    \/ ~SlowSize.ok \/ ~FastSize.ok
    \/ IsZero(SlowSize.val) \/ IsZero(FastSize.val)
    \/ wData.shape[1] = 0 \/ wData.shape[2] = 0

\* C5: with a scan size absent, non-numeric or 0, or a pixel count of 0, the
\* call returns nothing; the scaling step is where it raises once it is
\* reached, and no metadata field has been computed by then.
ScalingFailureIsFatal ==
    (InOpenIbw /\ ScalingInputBad) =>
        /\ pc \notin {"metadata", "fields", "assemble", "done"}
        /\ (pc = "raised" => raised_at \in {84, 87, 28, 29})
        /\ ((pc = "raised" /\ raised_at \notin {84, 87}) =>
                raised \in {"KeyError", "ValueError", "ZeroDivisionError"})
        /\ scaling = Unset /\ DOMAIN metadata = {}
        /\ x_range_nm = Unset /\ y_pixels = Unset /\ x_pixels = Unset
        /\ scan_rate = Unset /\ line_rate = Unset /\ fps = Unset
        /\ values = Unset /\ DOMAIN file_metadata = {}

\* the scaling step raised for a FastScanSize of 0 on a note whose ScanLines
\* value would have made line 95 raise as well
ScalingFailureIsFatalWitness ==
    /\ InOpenIbw /\ pc = "raised"
    /\ raised = "ZeroDivisionError" /\ raised_at = 29
    /\ IsZero(FastSize.val)
    /\ KeyScanLines \in DOMAIN ScalingNotes(scan_note)
    /\ ~ParseInt(ScalingNotes(scan_note)[KeyScanLines]).ok

\* a note value that is absent or not a number
SoftValue(key, parsed) == key \notin DOMAIN metadata \/ ~parsed.ok

\* C6: a FastScanSize that is absent or not a number gives a fast-axis range
\* of 0, a ScanLines or ScanPoints that is absent or not a number gives a
\* pixel count of 0, and computing the three fields never raises.
SoftDefaultsNeverRaise ==
    /\ raised_at \notin {94, 95, 96}
    /\ FieldsComputed =>
          /\ SoftValue(KeyFastScanSize, ParseFloat(DictGet(metadata, KeyFastScanSize, <<>>)))
                => x_range_nm = Zero
          /\ SoftValue(KeyScanLines, ParseInt(DictGet(metadata, KeyScanLines, <<>>)))
                => y_pixels = Zero
          /\ SoftValue(KeyScanPoints, ParseInt(DictGet(metadata, KeyScanPoints, <<>>)))
                => x_pixels = Zero

\* C7: fps is 1 / (ScanLines * ScanRate) when that product is not 0 and 0
\* otherwise, and computing it never divides by zero.
FpsNeverDividesByZero ==
    /\ raised_at # 101
    /\ FieldsComputed =>
          fps = IF IsZero(RatMul(y_pixels, scan_rate)) THEN Zero
                ELSE RatInv(RatMul(y_pixels, scan_rate))

\* C8: the line rate is 1 / ScanRate when the slow-axis pixel count is not 0
\* and 0 otherwise, and producing it never fails, also with ScanLines not 0
\* and ScanRate 0 or absent.
LineRateNeverFails ==
    /\ raised_at # 100
    /\ FieldsComputed =>
          line_rate = IF IsZero(y_pixels) THEN Zero ELSE RatInv(scan_rate)

\* C9: the image is the selected plane transposed, then flipped along its
\* first axis, every sample times 1e9: shape (C, R) and
\* image[i][j] = 1e9 * w[j][C-1-i][k].
ViewTransformOrder ==
    (InOpenIbw /\ image.shape # <<>>) =>
        /\ image.shape = <<wData.shape[2], wData.shape[1]>>
        /\ DOMAIN image.at = Idx2(wData.shape[2], wData.shape[1])
        /\ \A i \in 0..(wData.shape[2] - 1), j \in 0..(wData.shape[1] - 1) :
              image.at[<<i, j>>] =
                 RatMul(RatOfInt(E9), wData.at[<<j, wData.shape[2] - 1 - i, channel_idx>>])

\* a returned 2 x 2 image of channel 1 whose corner is sample w[0][1][1] = 4 nm,
\* and which is not the flip-then-transpose image 1e9 * w[R-1-j][i][k]
ViewTransformOrderWitness ==
    /\ InOpenIbw /\ pc = "done"
    /\ wData.shape = <<2, 2, 2>> /\ channel_idx = 1
    /\ image.at[<<0, 0>>] = <<4, 1>>
    /\ \E i \in 0..1, j \in 0..1 :
          image.at[<<i, j>>] # RatMul(RatOfInt(E9), wData.at[<<1 - j, i, channel_idx>>])

\* C10: the label list has one entry per channel of the sample array, so the
\* index of the selected channel in it lies inside the third dimension and
\* plane selection never indexes outside it, for every label table.
PlaneIndexInsideChannels ==
    /\ raised_at # 87
    /\ Resolved =>
          /\ Len(labels) = wData.shape[3]
          /\ channel_idx < wData.shape[3]


====
